---- MODULE Spec2Model ----
(***************************************************************************)
(* Model of permission.py, the Android permission inspector: the manifest  *)
(* loader, the permission extractor, the classifier, the differ and the    *)
(* analyze command that composes them.                                     *)
(*                                                                         *)
(* A Python str is modelled as the sequence of its code points, so that    *)
(* str.strip, set membership and the order used by sorted() are computed   *)
(* as Python computes them.  Python's None is modelled, for every optional *)
(* value, by a record whose field `present` is FALSE.                      *)
(***************************************************************************)
EXTENDS Integers, Sequences, FiniteSets, TLC

VARIABLES
    pc,         \* position of the run inside analyze (or of a function-level check)
    opts,       \* the command-line options of analyze (lines 160-167)
    apkutils2,  \* whether `import apkutils2` succeeded (lines 25-28)
    data1,      \* local data1 of analyze
    manifest1,  \* local manifest1 of analyze
    names1,     \* extract_permissions(manifest1), the list iterated at line 187
    perms1,     \* local perms1 of analyze
    data2,      \* local data2 of analyze
    manifest2,  \* local manifest2 of analyze
    names2,     \* extract_permissions(manifest2), the list iterated at line 206
    perms2,     \* local perms2 of analyze
    report,     \* local report of analyze
    calls,      \* the helper calls made so far, in order
    tables,     \* the arguments of the print_table calls made so far
    exports,    \* the export_json calls made so far: the data passed, and whether the write succeeded
    raised,     \* the call whose exception left analyze uncaught ("none" if there is none)
    exit        \* the exit status of the process, -1 while it runs

vars ==
    <<pc, opts, apkutils2, data1, manifest1, names1, perms1, data2, manifest2,
      names2, perms2, report, calls, tables, exports, raised, exit>>

(***************************************************************************)
(* Bounds of the model.                                                    *)
(***************************************************************************)
\* the largest number of child elements of a manifest root
MaxElems ==
    2

\* the largest number of records in a PermissionSet handed to diff_permissions alone
MaxPerms ==
    2

(***************************************************************************)
(* Strings.                                                                *)
(***************************************************************************)
Range(s) ==
    {s[i] : i \in 1..Len(s)}

\* the code points c for which Python's str.isspace() is true, which str.strip() removes
WHITESPACE ==
    {9, 10, 11, 12, 13, 28, 29, 30, 31, 32, 133, 160, 5760} \cup (8192..8202)
        \cup {8232, 8233, 8239, 8287, 12288}

RECURSIVE lstrip(_)
lstrip(s) ==
    IF s # <<>> /\ Head(s) \in WHITESPACE THEN lstrip(Tail(s)) ELSE s

RECURSIVE rstrip(_)
rstrip(s) ==
    IF s # <<>> /\ s[Len(s)] \in WHITESPACE THEN rstrip(SubSeq(s, 1, Len(s) - 1)) ELSE s

\* str.strip() with no argument
strip(s) ==
    rstrip(lstrip(s))

\* Python's a < b on str: lexicographic by code point, a proper prefix being smaller
RECURSIVE StrLess(_, _)
StrLess(a, b) ==
    IF b = <<>> THEN FALSE
    ELSE IF a = <<>> THEN TRUE
    ELSE IF Head(a) # Head(b) THEN Head(a) < Head(b)
    ELSE StrLess(Tail(a), Tail(b))

\* sorted(S) for a set S of str
RECURSIVE sorted(_)
sorted(S) ==
    IF S = {} THEN <<>>
    ELSE LET m == CHOOSE x \in S : \A y \in S : x = y \/ StrLess(x, y)
         IN  <<m>> \o sorted(S \ {m})

(***************************************************************************)
(* The permission catalog (lines 36-53).                                   *)
(***************************************************************************)
\* "android.permission.INTERNET" (line 37)
INTERNET ==
    <<97, 110, 100, 114, 111, 105, 100, 46, 112, 101, 114, 109, 105, 115, 115, 105, 111, 110, 46, 73, 78, 84, 69, 82, 78, 69, 84>>

\* "android.permission.ACCESS_NETWORK_STATE" (line 38)
ACCESS_NETWORK_STATE ==
    <<97, 110, 100, 114, 111, 105, 100, 46, 112, 101, 114, 109, 105, 115, 115, 105, 111, 110, 46, 65, 67, 67, 69, 83, 83, 95, 78, 69, 84, 87, 79, 82, 75, 95, 83, 84, 65, 84, 69>>

\* "android.permission.ACCESS_FINE_LOCATION" (line 39)
ACCESS_FINE_LOCATION ==
    <<97, 110, 100, 114, 111, 105, 100, 46, 112, 101, 114, 109, 105, 115, 115, 105, 111, 110, 46, 65, 67, 67, 69, 83, 83, 95, 70, 73, 78, 69, 95, 76, 79, 67, 65, 84, 73, 79, 78>>

\* "android.permission.ACCESS_COARSE_LOCATION" (line 40)
ACCESS_COARSE_LOCATION ==
    <<97, 110, 100, 114, 111, 105, 100, 46, 112, 101, 114, 109, 105, 115, 115, 105, 111, 110, 46, 65, 67, 67, 69, 83, 83, 95, 67, 79, 65, 82, 83, 69, 95, 76, 79, 67, 65, 84, 73, 79, 78>>

\* "android.permission.READ_CONTACTS" (line 41)
READ_CONTACTS ==
    <<97, 110, 100, 114, 111, 105, 100, 46, 112, 101, 114, 109, 105, 115, 115, 105, 111, 110, 46, 82, 69, 65, 68, 95, 67, 79, 78, 84, 65, 67, 84, 83>>

\* "android.permission.WRITE_CONTACTS" (line 42)
WRITE_CONTACTS ==
    <<97, 110, 100, 114, 111, 105, 100, 46, 112, 101, 114, 109, 105, 115, 115, 105, 111, 110, 46, 87, 82, 73, 84, 69, 95, 67, 79, 78, 84, 65, 67, 84, 83>>

\* "android.permission.RECORD_AUDIO" (line 43)
RECORD_AUDIO ==
    <<97, 110, 100, 114, 111, 105, 100, 46, 112, 101, 114, 109, 105, 115, 115, 105, 111, 110, 46, 82, 69, 67, 79, 82, 68, 95, 65, 85, 68, 73, 79>>

\* "android.permission.CAMERA" (line 44)
CAMERA ==
    <<97, 110, 100, 114, 111, 105, 100, 46, 112, 101, 114, 109, 105, 115, 115, 105, 111, 110, 46, 67, 65, 77, 69, 82, 65>>

\* "android.permission.READ_SMS" (line 45)
READ_SMS ==
    <<97, 110, 100, 114, 111, 105, 100, 46, 112, 101, 114, 109, 105, 115, 115, 105, 111, 110, 46, 82, 69, 65, 68, 95, 83, 77, 83>>

\* "android.permission.SEND_SMS" (line 46)
SEND_SMS ==
    <<97, 110, 100, 114, 111, 105, 100, 46, 112, 101, 114, 109, 105, 115, 115, 105, 111, 110, 46, 83, 69, 78, 68, 95, 83, 77, 83>>

\* "android.permission.RECEIVE_SMS" (line 47)
RECEIVE_SMS ==
    <<97, 110, 100, 114, 111, 105, 100, 46, 112, 101, 114, 109, 105, 115, 115, 105, 111, 110, 46, 82, 69, 67, 69, 73, 86, 69, 95, 83, 77, 83>>

\* "android.permission.READ_EXTERNAL_STORAGE" (line 48)
READ_EXTERNAL_STORAGE ==
    <<97, 110, 100, 114, 111, 105, 100, 46, 112, 101, 114, 109, 105, 115, 115, 105, 111, 110, 46, 82, 69, 65, 68, 95, 69, 88, 84, 69, 82, 78, 65, 76, 95, 83, 84, 79, 82, 65, 71, 69>>

\* "android.permission.WRITE_EXTERNAL_STORAGE" (line 49)
WRITE_EXTERNAL_STORAGE ==
    <<97, 110, 100, 114, 111, 105, 100, 46, 112, 101, 114, 109, 105, 115, 115, 105, 111, 110, 46, 87, 82, 73, 84, 69, 95, 69, 88, 84, 69, 82, 78, 65, 76, 95, 83, 84, 79, 82, 65, 71, 69>>

\* "android.permission.POST_NOTIFICATIONS" (line 50)
POST_NOTIFICATIONS ==
    <<97, 110, 100, 114, 111, 105, 100, 46, 112, 101, 114, 109, 105, 115, 115, 105, 111, 110, 46, 80, 79, 83, 84, 95, 78, 79, 84, 73, 70, 73, 67, 65, 84, 73, 79, 78, 83>>

\* "android.permission.INSTALL_PACKAGES" (line 51)
INSTALL_PACKAGES ==
    <<97, 110, 100, 114, 111, 105, 100, 46, 112, 101, 114, 109, 105, 115, 115, 105, 111, 110, 46, 73, 78, 83, 84, 65, 76, 76, 95, 80, 65, 67, 75, 65, 71, 69, 83>>

\* "android.permission.READ_LOGS" (line 52)
READ_LOGS ==
    <<97, 110, 100, 114, 111, 105, 100, 46, 112, 101, 114, 109, 105, 115, 115, 105, 111, 110, 46, 82, 69, 65, 68, 95, 76, 79, 71, 83>>

PERMISSION_CATEGORIES ==
    (INTERNET :> <<"normal", "NETWORK">>)
    @@ (ACCESS_NETWORK_STATE :> <<"normal", "NETWORK">>)
    @@ (ACCESS_FINE_LOCATION :> <<"dangerous", "LOCATION">>)
    @@ (ACCESS_COARSE_LOCATION :> <<"dangerous", "LOCATION">>)
    @@ (READ_CONTACTS :> <<"dangerous", "CONTACTS">>)
    @@ (WRITE_CONTACTS :> <<"dangerous", "CONTACTS">>)
    @@ (RECORD_AUDIO :> <<"dangerous", "MICROPHONE">>)
    @@ (CAMERA :> <<"dangerous", "CAMERA">>)
    @@ (READ_SMS :> <<"dangerous", "SMS">>)
    @@ (SEND_SMS :> <<"dangerous", "SMS">>)
    @@ (RECEIVE_SMS :> <<"dangerous", "SMS">>)
    @@ (READ_EXTERNAL_STORAGE :> <<"dangerous", "STORAGE">>)
    @@ (WRITE_EXTERNAL_STORAGE :> <<"dangerous", "STORAGE">>)
    @@ (POST_NOTIFICATIONS :> <<"dangerous", "NOTIFICATIONS">>)
    @@ (INSTALL_PACKAGES :> <<"signature", "SYSTEM">>)
    @@ (READ_LOGS :> <<"signature", "SYSTEM">>)

\* "com.example.CUSTOM_PERM", a name the catalog does not hold
CUSTOM_PERM ==
    <<99, 111, 109, 46, 101, 120, 97, 109, 112, 108, 101, 46, 67, 85, 83, 84, 79, 77, 95, 80, 69, 82, 77>>

(***************************************************************************)
(* Optional values.                                                        *)
(***************************************************************************)
\* None where bytes are expected
NoData ==
    [present |-> FALSE, plain |-> FALSE, dec |-> FALSE, children |-> <<>>]

\* Manifest bytes.  plain: etree.fromstring accepts them as they are.
\* dec: apkutils2 decodes them to XML that etree.fromstring accepts.
\* children: the child elements of the root of the document they encode.
Bytes(plain, dec, children) ==
    [present |-> TRUE, plain |-> plain, dec |-> dec, children |-> children]

\* None where a parsed tree is expected
NoTree ==
    [present |-> FALSE, children |-> <<>>]

Tree(children) ==
    [present |-> TRUE, children |-> children]

\* el.get(...) of an element that has no android:name attribute
NoAttr ==
    [present |-> FALSE, val |-> <<>>]

Attr(s) ==
    [present |-> TRUE, val |-> s]

\* the group of a permission the catalog does not hold
NoGroup ==
    [present |-> FALSE, val |-> ""]

\* report["diff"] before a comparison
NoDiff ==
    [present |-> FALSE, added |-> <<>>, removed |-> <<>>, newDangerous |-> <<>>]

(***************************************************************************)
(* The helper functions.                                                   *)
(***************************************************************************)
\* load_manifest_from_apk: a path that does not exist gives None, and so does
\* an archive from which the entry AndroidManifest.xml cannot be read
load_manifest_from_apk(apk_path) ==
    IF ~apk_path.exists THEN NoData
    ELSE IF ~apk_path.entry.present THEN NoData
    ELSE apk_path.entry

\* parse_manifest: with apkutils2 the decoder's output is parsed, without it the
\* bytes themselves; any exception gives None
parse_manifest(data) ==
    IF apkutils2
    THEN IF data.present /\ data.dec THEN Tree(data.children) ELSE NoTree
    ELSE IF data.present /\ data.plain THEN Tree(data.children) ELSE NoTree

\* manifest_root.findall(tag): the children of the root with that tag
findall(manifest_root, tag) ==
    SelectSeq(manifest_root.children, LAMBDA el : el.tag = tag)

\* the names appended to perms for one tag (lines 92-95)
NamesOfTag(manifest_root, tag) ==
    LET named == SelectSeq(findall(manifest_root, tag),
                           LAMBDA el : el.name.present /\ el.name.val # <<>>)
    IN  [i \in 1..Len(named) |-> strip(named[i].name.val)]

\* extract_permissions as it would be without the strip() of line 95
extract_permissions_untrimmed(manifest_root) ==
    IF ~manifest_root.present THEN <<>>
    ELSE LET kept(tag) == SelectSeq(findall(manifest_root, tag),
                                    LAMBDA el : el.name.present /\ el.name.val # <<>>)
             named == kept("uses-permission") \o kept("uses-permission-sdk-23")
             perms == [i \in 1..Len(named) |-> named[i].name.val]
         IN  sorted(Range(perms))

extract_permissions(manifest_root) ==
    IF ~manifest_root.present THEN <<>>
    ELSE LET perms == NamesOfTag(manifest_root, "uses-permission")
                          \o NamesOfTag(manifest_root, "uses-permission-sdk-23")
         IN  sorted(Range(perms))

\* classify_permission as it would be with `sensitive = cat == "dangerous"` at line 106
classify_permission_dangerous_only(name) ==
    LET cg == IF name \in DOMAIN PERMISSION_CATEGORIES
              THEN PERMISSION_CATEGORIES[name]
              ELSE <<"unknown", "">>
    IN  [name |-> name,
         category |-> cg[1],
         group |-> IF name \in DOMAIN PERMISSION_CATEGORIES
                   THEN [present |-> TRUE, val |-> cg[2]] ELSE NoGroup,
         sensitive |-> cg[1] = "dangerous"]

classify_permission(name) ==
    LET cg == IF name \in DOMAIN PERMISSION_CATEGORIES
              THEN PERMISSION_CATEGORIES[name]
              ELSE <<"unknown", "">>
    IN  [name |-> name,
         category |-> cg[1],
         group |-> IF name \in DOMAIN PERMISSION_CATEGORIES
                   THEN [present |-> TRUE, val |-> cg[2]] ELSE NoGroup,
         sensitive |-> cg[1] \in {"dangerous", "signature"}]

\* [classify_permission(p) for p in names] (lines 187 and 206)
ClassifyAll(names) ==
    [i \in 1..Len(names) |-> classify_permission(names[i])]

\* the keys of {p["name"]: p for p in ps}, in the order a dict iterates them:
\* the order of first insertion
DictKeys(ps) ==
    LET F[i \in 0..Len(ps)] ==
            IF i = 0 THEN <<>>
            ELSE IF ps[i].name \in Range(F[i - 1]) THEN F[i - 1]
            ELSE Append(F[i - 1], ps[i].name)
    IN  F[Len(ps)]

\* {p["name"]: p for p in ps}[n]: the last record of that name
DictGet(ps, n) ==
    ps[CHOOSE i \in 1..Len(ps) :
           ps[i].name = n /\ \A j \in (i + 1)..Len(ps) : ps[j].name # n]

\* diff_permissions as it would be with new_dangerous taken from new_names, not from added (line 141)
diff_permissions_dangerous_of_new(old, new) ==
    LET added == SelectSeq(DictKeys(new), LAMBDA n : n \notin Range(DictKeys(old)))
        removed == SelectSeq(DictKeys(old), LAMBDA n : n \notin Range(DictKeys(new)))
    IN  [present |-> TRUE, added |-> added, removed |-> removed,
         newDangerous |-> SelectSeq(DictKeys(new),
                                    LAMBDA n : DictGet(new, n).category = "dangerous")]

diff_permissions(old, new) ==
    LET old_names == DictKeys(old)
        new_names == DictKeys(new)
        added == SelectSeq(new_names, LAMBDA n : n \notin Range(old_names))
        removed == SelectSeq(old_names, LAMBDA n : n \notin Range(new_names))
        new_dangerous == SelectSeq(added, LAMBDA n : DictGet(new, n).category = "dangerous")
    IN  [present |-> TRUE, added |-> added, removed |-> removed,
         newDangerous |-> new_dangerous]

\* lines 188-189 as they would be if the allow-list were ignored
FilterOnly_keeps_all(perms, only) ==
    perms

\* [p for p in perms if p["category"] in only] when only is truthy (lines 188-189)
FilterOnly(perms, only) ==
    IF only # {} THEN SelectSeq(perms, LAMBDA p : p.category \in only) ELSE perms

(***************************************************************************)
(* The inputs of a run of analyze.                                         *)
(***************************************************************************)
SeqsUpTo(S, n) ==
    UNION {[1..k -> S] : k \in 0..n}

\* the child elements the manifests of a whole run are built from
MainElems ==
    {[tag |-> "uses-permission", name |-> Attr(CAMERA)],
     [tag |-> "uses-permission", name |-> Attr(INTERNET)],
     [tag |-> "uses-permission-sdk-23", name |-> Attr(CUSTOM_PERM)]}

\* what a manifest file or the manifest entry of an archive may hold: bytes
\* that are plain XML, binary AXML or both, of some document, or bytes that
\* are neither
MainData ==
    {Bytes(pd[1], pd[2], c) :
        pd \in {<<TRUE, FALSE>>, <<FALSE, TRUE>>, <<TRUE, TRUE>>},
        c \in SeqsUpTo(MainElems, MaxElems)}
        \cup {Bytes(FALSE, FALSE, <<>>)}

\* what an --apk / --compare-apk path may name: nothing, an archive whose
\* manifest entry cannot be read, or an archive with a manifest
ApkFiles ==
    {[exists |-> FALSE, entry |-> NoData], [exists |-> TRUE, entry |-> NoData]}
        \cup {[exists |-> TRUE, entry |-> d] : d \in MainData}

\* what a --manifest / --compare-manifest path may name: a file read_bytes
\* raises on, or a file with some content
ManifestFiles ==
    {[readable |-> FALSE, content |-> NoData]}
        \cup {[readable |-> TRUE, content |-> d] : d \in MainData}

\* the values of --only tried: none, and two allow-lists
OnlyValues ==
    {{}, {"dangerous"}, {"normal", "unknown"}}

\* the options of analyze; a path option is TRUE when the path is given
Options ==
    [apk : BOOLEAN, manifest : BOOLEAN, compare_apk : BOOLEAN,
     compare_manifest : BOOLEAN, output : BOOLEAN, only : OnlyValues,
     fail_on_new_dangerous : BOOLEAN]

NoOptions ==
    [apk |-> FALSE, manifest |-> FALSE, compare_apk |-> FALSE,
     compare_manifest |-> FALSE, output |-> FALSE, only |-> {},
     fail_on_new_dangerous |-> FALSE]

\* the content of a value the code no longer reads is dropped from the state
Forget(x) ==
    [x EXCEPT !.children = <<>>]

\* nothing reported, written or raised yet
NothingDone ==
    /\ report = [permissions |-> <<>>, diff |-> NoDiff]
    /\ calls = <<>>
    /\ tables = <<>>
    /\ exports = <<>>
    /\ raised = "none"
    /\ exit = -1

\* the comparison locals of analyze before it has assigned them
CompareUnassigned ==
    /\ data2 = NoData
    /\ manifest2 = NoTree
    /\ names2 = <<>>
    /\ perms2 = <<>>

\* the locals of analyze before it has assigned them
Unassigned ==
    /\ data1 = NoData
    /\ manifest1 = NoTree
    /\ names1 = <<>>
    /\ perms1 = <<>>
    /\ CompareUnassigned
    /\ NothingDone

Init ==
    /\ pc = "start"
    /\ opts \in Options
    /\ apkutils2 \in BOOLEAN
    /\ Unassigned

(***************************************************************************)
(* analyze (lines 159-230), one action per step of its linear pass.        *)
(***************************************************************************)
\* raise typer.Exit(code), or an exception nothing catches (status 1)
Terminate(code) ==
    /\ pc' = "done"
    /\ exit' = code

\* lines 174-181: the base bytes, from the archive, else from the manifest
\* file, else exit 1
LoadBase ==
    /\ pc = "start"
    /\ \/ /\ opts.apk
          /\ \E f \in ApkFiles : data1' = load_manifest_from_apk(f)
          /\ calls' = Append(calls, "load_manifest_from_apk")
          /\ pc' = "loaded"
          /\ UNCHANGED <<raised, exit>>
       \/ /\ ~opts.apk /\ opts.manifest
          /\ \E f \in ManifestFiles :
                IF f.readable
                THEN /\ data1' = f.content
                     /\ pc' = "loaded"
                     /\ UNCHANGED <<raised, exit>>
                ELSE /\ raised' = "read_bytes(manifest)"
                     /\ Terminate(1)
                     /\ UNCHANGED data1
          /\ calls' = Append(calls, "read_bytes")
       \/ /\ ~opts.apk /\ ~opts.manifest
          /\ Terminate(1)
          /\ UNCHANGED <<data1, calls, raised>>
    /\ UNCHANGED <<opts, apkutils2, manifest1, names1, perms1, data2, manifest2,
                   names2, perms2, report, tables, exports>>

\* lines 183-185 as they would be without the exit on a None tree
ParseBase_continues_on_none ==
    /\ pc = "loaded"
    /\ manifest1' = parse_manifest(data1)
    /\ calls' = Append(calls, "parse_manifest")
    /\ pc' = "parsed"
    /\ UNCHANGED <<opts, apkutils2, data1, names1, perms1, data2, manifest2,
                   names2, perms2, report, tables, exports, raised, exit>>

\* lines 183-185
ParseBase ==
    /\ pc = "loaded"
    /\ manifest1' = parse_manifest(data1)
    /\ calls' = Append(calls, "parse_manifest")
    /\ IF manifest1'.present
       THEN pc' = "parsed" /\ UNCHANGED exit
       ELSE Terminate(1)
    /\ UNCHANGED <<opts, apkutils2, data1, names1, perms1, data2, manifest2,
                   names2, perms2, report, tables, exports, raised>>

\* lines 187-196: extract, classify, filter, print the table, start the report
ExtractClassifyBase ==
    /\ pc = "parsed"
    /\ names1' = extract_permissions(manifest1)
    /\ perms1' = FilterOnly(ClassifyAll(names1'), opts.only)
    /\ tables' = Append(tables, perms1')
    /\ report' = [permissions |-> perms1', diff |-> NoDiff]
    /\ calls' = calls \o <<"extract_permissions", "print_table">>
    /\ data1' = Forget(data1)
    /\ manifest1' = Forget(manifest1)
    /\ pc' = "reported"
    /\ UNCHANGED <<opts, apkutils2, data2, manifest2, names2, perms2, exports,
                   raised, exit>>

\* lines 205-208, given the comparison bytes (or None) and the call that got them
CompareWith(d, loader) ==
    LET m == parse_manifest(d)
        ns == extract_permissions(m)
        p2 == ClassifyAll(ns)
    IN  /\ data2' = Forget(d)
        /\ manifest2' = Forget(m)
        /\ names2' = ns
        /\ perms2' = p2
        /\ report' = [report EXCEPT !.diff = diff_permissions(perms1, p2)]
        /\ calls' = calls \o <<loader, "parse_manifest", "extract_permissions",
                               "diff_permissions">>
        /\ pc' = "compared"
        /\ UNCHANGED <<raised, exit>>

\* lines 199-208: the comparison manifest and the diff
Compare ==
    /\ pc = "reported"
    /\ opts.compare_apk \/ opts.compare_manifest
    /\ IF opts.compare_apk
       THEN \E f \in ApkFiles :
                CompareWith(load_manifest_from_apk(f), "load_manifest_from_apk")
       ELSE \E f \in ManifestFiles :
                IF f.readable
                THEN CompareWith(f.content, "read_bytes")
                ELSE /\ raised' = "read_bytes(compare_manifest)"
                     /\ calls' = Append(calls, "read_bytes")
                     /\ Terminate(1)
                     /\ UNCHANGED <<data2, manifest2, names2, perms2, report>>
    /\ UNCHANGED <<opts, apkutils2, data1, manifest1, names1, perms1, tables, exports>>

\* export_json (lines 145-152): the write succeeds or fails, and either way
\* the call returns
export_json(data) ==
    \E written \in BOOLEAN :
        /\ exports' = Append(exports, [data |-> data, written |-> written])
        /\ calls' = Append(calls, "export_json")

\* lines 220-224 as they would be without the export_json call of lines 222-223
DecideExit_without_artifact ==
    /\ pc = "compared"
    /\ IF opts.fail_on_new_dangerous /\ report.diff.newDangerous # <<>>
       THEN Terminate(3)
       ELSE pc' = "emit" /\ UNCHANGED exit
    /\ UNCHANGED <<opts, apkutils2, data1, manifest1, names1, perms1, data2,
                   manifest2, names2, perms2, report, tables, raised, exports, calls>>

\* lines 220-224 as they would be if line 220 did not test fail_on_new_dangerous
DecideExit_ignoring_policy_flag ==
    /\ pc = "compared"
    /\ IF report.diff.newDangerous # <<>>
       THEN /\ IF opts.output THEN export_json(report)
                              ELSE UNCHANGED <<exports, calls>>
            /\ Terminate(3)
       ELSE /\ pc' = "emit"
            /\ UNCHANGED <<exports, calls, exit>>
    /\ UNCHANGED <<opts, apkutils2, data1, manifest1, names1, perms1, data2,
                   manifest2, names2, perms2, report, tables, raised>>

\* lines 220-224: the policy exit, after the artifact
DecideExit ==
    /\ pc = "compared"
    /\ IF opts.fail_on_new_dangerous /\ report.diff.newDangerous # <<>>
       THEN /\ IF opts.output THEN export_json(report)
                              ELSE UNCHANGED <<exports, calls>>
            /\ Terminate(3)
       ELSE /\ pc' = "emit"
            /\ UNCHANGED <<exports, calls, exit>>
    /\ UNCHANGED <<opts, apkutils2, data1, manifest1, names1, perms1, data2,
                   manifest2, names2, perms2, report, tables, raised>>

\* lines 227-228, reached past the comparison block or around it
EmitArtifact ==
    /\ \/ pc = "emit"
       \/ pc = "reported" /\ ~(opts.compare_apk \/ opts.compare_manifest)
    /\ IF opts.output THEN export_json(report)
                      ELSE UNCHANGED <<exports, calls>>
    /\ pc' = "emitted"
    /\ UNCHANGED <<opts, apkutils2, data1, manifest1, names1, perms1, data2,
                   manifest2, names2, perms2, report, tables, raised, exit>>

\* line 230
ExitSuccess ==
    /\ pc = "emitted"
    /\ Terminate(0)
    /\ UNCHANGED <<opts, apkutils2, data1, manifest1, names1, perms1, data2,
                   manifest2, names2, perms2, report, calls, tables, exports, raised>>

Next ==
    \/ LoadBase
    \/ ParseBase
    \/ ExtractClassifyBase
    \/ Compare
    \/ DecideExit
    \/ EmitArtifact
    \/ ExitSuccess

Spec ==
    Init /\ [][Next]_vars

(***************************************************************************)
(* extract_permissions alone, on manifests whose elements may lack the     *)
(* name attribute, repeat a name, or pad it with whitespace.               *)
(***************************************************************************)
\* " android.permission.CAMERA\n"
CAMERA_PADDED ==
    <<32>> \o CAMERA \o <<10>>

\* the values of android:name tried; <<>> is name="" and <<32, 9>> is name=" \t"
RawNames ==
    {CAMERA, CAMERA_PADDED, INTERNET, CUSTOM_PERM, <<>>, <<32, 9>>}

ExtractElems ==
    {[tag |-> t, name |-> a] :
        t \in {"uses-permission", "uses-permission-sdk-23", "application"},
        a \in {NoAttr} \cup {Attr(s) : s \in RawNames}}

InitExtract ==
    /\ pc = "extract_in"
    /\ opts = NoOptions
    /\ apkutils2 = FALSE
    /\ data1 = NoData
    /\ manifest1 \in {NoTree} \cup {Tree(c) : c \in SeqsUpTo(ExtractElems, MaxElems)}
    /\ names1 = <<>>
    /\ perms1 = <<>>
    /\ CompareUnassigned
    /\ NothingDone

ApplyExtract ==
    /\ pc = "extract_in"
    /\ names1' = extract_permissions(manifest1)
    /\ pc' = "extract_out"
    /\ UNCHANGED <<opts, apkutils2, data1, manifest1, perms1, data2, manifest2,
                   names2, perms2, report, calls, tables, exports, raised, exit>>

NextExtract ==
    ApplyExtract

SpecExtract ==
    InitExtract /\ [][NextExtract]_vars

(***************************************************************************)
(* classify_permission alone, on every key of the catalog and on strings   *)
(* near a key.                                                             *)
(***************************************************************************)
\* str.lower() on the ASCII letters
Lower(s) ==
    [i \in 1..Len(s) |-> IF s[i] \in 65..90 THEN s[i] + 32 ELSE s[i]]

ClassifyInputs ==
    LET K == DOMAIN PERMISSION_CATEGORIES
    IN  K \cup {Append(k, 32) : k \in K} \cup {Lower(k) : k \in K}
          \cup {SubSeq(k, 1, Len(k) - 1) : k \in K} \cup {CUSTOM_PERM, <<>>}

InitClassify ==
    /\ pc = "classify_in"
    /\ opts = NoOptions
    /\ apkutils2 = FALSE
    /\ data1 = NoData
    /\ manifest1 = NoTree
    /\ names1 \in {<<n>> : n \in ClassifyInputs}
    /\ perms1 = <<>>
    /\ CompareUnassigned
    /\ NothingDone

ApplyClassify ==
    /\ pc = "classify_in"
    /\ perms1' = ClassifyAll(names1)
    /\ pc' = "classify_out"
    /\ UNCHANGED <<opts, apkutils2, data1, manifest1, names1, data2, manifest2,
                   names2, perms2, report, calls, tables, exports, raised, exit>>

\* the same names classified a second time
ApplyClassifyAgain ==
    /\ pc = "classify_out"
    /\ names2' = names1
    /\ perms2' = ClassifyAll(names1)
    /\ pc' = "classify_twice"
    /\ UNCHANGED <<opts, apkutils2, data1, manifest1, names1, perms1, data2,
                   manifest2, report, calls, tables, exports, raised, exit>>

NextClassify ==
    \/ ApplyClassify
    \/ ApplyClassifyAgain

SpecClassify ==
    InitClassify /\ [][NextClassify]_vars

(***************************************************************************)
(* diff_permissions alone, on two PermissionSets.                          *)
(***************************************************************************)
DiffNames ==
    {CAMERA, INTERNET, READ_LOGS, READ_SMS, CUSTOM_PERM}

\* what lines 187 and 206 build: the classified records of a sorted list of
\* distinct names
PermissionSets ==
    {ClassifyAll(sorted(S)) :
        S \in {X \in SUBSET DiffNames : Cardinality(X) <= MaxPerms}}

InitDiff ==
    /\ pc = "diff_in"
    /\ opts = NoOptions
    /\ apkutils2 = FALSE
    /\ data1 = NoData
    /\ manifest1 = NoTree
    /\ names1 = <<>>
    /\ perms1 \in PermissionSets
    /\ data2 = NoData
    /\ manifest2 = NoTree
    /\ names2 = <<>>
    /\ perms2 \in PermissionSets
    /\ NothingDone

ApplyDiff ==
    /\ pc = "diff_in"
    /\ report' = [permissions |-> perms1, diff |-> diff_permissions(perms1, perms2)]
    /\ pc' = "diff_out"
    /\ UNCHANGED <<opts, apkutils2, data1, manifest1, names1, perms1, data2,
                   manifest2, names2, perms2, calls, tables, exports, raised, exit>>

NextDiff ==
    ApplyDiff

SpecDiff ==
    InitDiff /\ [][NextDiff]_vars

(***************************************************************************)
(* Properties.                                                             *)
(***************************************************************************)
IsStrictlyIncreasing(s) ==
    \A i \in 1..(Len(s) - 1) : StrLess(s[i], s[i + 1])

NamesOf(ps) ==
    {ps[i].name : i \in 1..Len(ps)}

CompareSupplied ==
    opts.compare_apk \/ opts.compare_manifest

\* the base manifest loaded and parsed
BaseParsed ==
    manifest1.present

\* the Load-Base step failed: no base source, no bytes, or no tree from the bytes
BaseFailed ==
    /\ pc # "start"
    /\ \/ ~data1.present
       \/ pc # "loaded" /\ ~manifest1.present

\* the run went into the comparison block (line 199)
CompareAttempted ==
    /\ CompareSupplied
    /\ pc \in {"compared", "emit", "emitted", "done"}
    /\ "print_table" \in Range(calls)

\* the comparison input could not be read, or gave no bytes, or gave no tree
CompareFailed ==
    /\ CompareAttempted
    /\ \/ raised = "read_bytes(compare_manifest)"
       \/ ~manifest2.present

PolicyTriggered ==
    CompareSupplied /\ opts.fail_on_new_dangerous /\ report.diff.newDangerous # <<>>

\* C1, as stated: when the base manifest loads and parses, the exit status is 3
\* exactly when a comparison input is supplied, fail_on_new_dangerous is set and
\* newDangerous is non-empty, and 0 otherwise, whatever the output path and the
\* outcome of the JSON write; no status other than 0, 1 or 3 is produced.
ExitIsThreeOrZeroOnceBaseParsed ==
    pc = "done" =>
        /\ exit \in {0, 1, 3}
        /\ BaseParsed => exit = IF PolicyTriggered THEN 3 ELSE 0

\* C1, amended: when the base manifest loads and parses, the exit status is 1 if
\* reading the comparison manifest file raises (nothing catches the exception),
\* otherwise 3 exactly when a comparison input is supplied, fail_on_new_dangerous
\* is set and newDangerous is non-empty, and 0 otherwise, whatever the output
\* path and the outcome of the JSON write; no status other than 0, 1 or 3 is
\* produced.
ExitStatusOnceBaseParsed ==
    pc = "done" =>
        /\ exit \in {0, 1, 3}
        /\ BaseParsed =>
              exit = IF raised = "read_bytes(compare_manifest)" THEN 1
                     ELSE IF PolicyTriggered THEN 3
                     ELSE 0

\* a run that ends with status 3 although its JSON write failed
PolicyExitAfterFailedWrite ==
    /\ pc = "done"
    /\ exit = 3
    /\ Len(exports) = 1
    /\ ~exports[1].written

\* C2: when fail_on_new_dangerous is set, newDangerous is non-empty and an output
\* path is configured, export_json has been called with the report, which holds
\* the diff, by the time the process ends with status 3; and no run calls
\* export_json more than once.
ArtifactBeforePolicyExit ==
    /\ Len(exports) <= 1
    /\ Len(SelectSeq(calls, LAMBDA c : c = "export_json")) = Len(exports)
    /\ (pc = "done" /\ opts.fail_on_new_dangerous /\ opts.output
            /\ report.diff.newDangerous # <<>>) =>
          /\ exit = 3
          /\ Len(exports) = 1
          /\ exports[1].data = report
          /\ exports[1].data.diff.present
          /\ exports[1].data.diff.newDangerous # <<>>
          /\ calls[Len(calls)] = "export_json"

\* a run that ends with status 3 after writing the report with its diff
PolicyExitWithArtifact ==
    /\ pc = "done"
    /\ exit = 3
    /\ opts.output
    /\ Len(exports) = 1
    /\ exports[1].written
    /\ exports[1].data.diff.newDangerous # <<>>

\* C3: when a comparison input is supplied and loading or parsing it fails, the
\* failure propagates: diff_permissions is not run against an empty or partial
\* comparison set, no report holds a diff computed from the failed input, and
\* the run does not end with status 0.
ComparisonFailurePropagates ==
    CompareFailed =>
        /\ "diff_permissions" \notin Range(calls)
        /\ ~report.diff.present
        /\ \A i \in 1..Len(exports) : ~exports[i].data.diff.present
        /\ pc = "done" => exit # 0

\* C4: a failure of the Load-Base step is fatal: the run ends with status 1 and
\* never calls print_table, diff_permissions or export_json; with neither base
\* source given it ends before any load or parse is attempted.
BaseFailureIsFatal ==
    /\ BaseFailed =>
          /\ pc \in {"loaded", "done"}
          /\ pc = "done" => exit = 1
          /\ Range(calls) \cap {"extract_permissions", "print_table",
                                "diff_permissions", "export_json"} = {}
          /\ tables = <<>>
          /\ exports = <<>>
          /\ ~report.diff.present
    /\ (pc # "start" /\ ~opts.apk /\ ~opts.manifest) =>
          /\ pc = "done"
          /\ exit = 1
          /\ calls = <<>>

\* a run ended by bytes that loaded from the archive but did not parse
UnparsableBaseEndsRun ==
    /\ pc = "done"
    /\ exit = 1
    /\ opts.apk
    /\ data1.present
    /\ ~manifest1.present
    /\ calls = <<"load_manifest_from_apk", "parse_manifest">>

\* C5: parse_manifest tries the decoder first and falls back to parsing the same
\* bytes as plain XML when the decoder is absent or fails, so it returns None
\* only when both fail; bytes that are valid plain XML always give a tree.
ParseFallsBackToPlainXml ==
    (pc \notin {"start", "loaded"} /\ "parse_manifest" \in Range(calls)) =>
        (manifest1.present <=>
            data1.present /\ ((apkutils2 /\ data1.dec) \/ data1.plain))

\* C6: for two PermissionSets old and new, added is the names of new that are
\* not names of old, removed the names of old that are not names of new, and
\* newDangerous the names in added whose record in new has category dangerous,
\* each in lexicographic order; so added and removed are disjoint and
\* newDangerous is within added.
DiffMatchesSetDifferences ==
    pc = "diff_out" =>
        LET d == report.diff
            O == NamesOf(perms1)
            N == NamesOf(perms2)
        IN  /\ Range(d.added) = N \ O
            /\ Range(d.removed) = O \ N
            /\ Range(d.newDangerous) =
                  {n \in N \ O :
                      \E i \in 1..Len(perms2) :
                          perms2[i].name = n /\ perms2[i].category = "dangerous"}
            /\ IsStrictlyIncreasing(d.added)
            /\ IsStrictlyIncreasing(d.removed)
            /\ IsStrictlyIncreasing(d.newDangerous)
            /\ Range(d.added) \cap Range(d.removed) = {}
            /\ Range(d.newDangerous) \subseteq Range(d.added)

\* a diff with names added, names removed, and an added name that is not dangerous
DiffWithAddedRemovedAndDangerous ==
    /\ pc = "diff_out"
    /\ report.diff.removed # <<>>
    /\ report.diff.newDangerous # <<>>
    /\ Len(report.diff.added) > Len(report.diff.newDangerous)

\* the uses-permission and uses-permission-sdk-23 children of a manifest root
PermissionElements(manifest_root) ==
    {manifest_root.children[i] : i \in
        {j \in 1..Len(manifest_root.children) :
            manifest_root.children[j].tag \in
                {"uses-permission", "uses-permission-sdk-23"}}}

\* C7, as stated: extract_permissions returns the trimmed values of the name
\* attributes of the uses-permission and uses-permission-sdk-23 elements, without
\* duplicates and strictly increasing; elements without the attribute give
\* nothing, and a None tree gives the empty list.
ExtractIsSortedSetOfTrimmedNames ==
    pc = "extract_out" =>
        IF manifest1.present
        THEN /\ IsStrictlyIncreasing(names1)
             /\ Range(names1) =
                   {strip(el.name.val) :
                       el \in {e \in PermissionElements(manifest1) : e.name.present}}
        ELSE names1 = <<>>

\* C7, amended: extract_permissions returns the trimmed values of the non-empty
\* name attributes of the uses-permission and uses-permission-sdk-23 elements,
\* without duplicates and strictly increasing; elements without the attribute,
\* or with an empty one, give nothing, and a None tree gives the empty list.
ExtractIsSortedSetOfTrimmedNonEmptyNames ==
    pc = "extract_out" =>
        IF manifest1.present
        THEN /\ IsStrictlyIncreasing(names1)
             /\ Range(names1) =
                   {strip(el.name.val) :
                       el \in {e \in PermissionElements(manifest1) :
                                  e.name.present /\ e.name.val # <<>>}}
        ELSE names1 = <<>>

\* two elements whose names differ only by surrounding whitespace give one name
PaddedDuplicateCollapses ==
    /\ pc = "extract_out"
    /\ manifest1.present
    /\ Len(manifest1.children) = 2
    /\ manifest1.children[1].tag = "uses-permission-sdk-23"
    /\ manifest1.children[2].tag = "uses-permission"
    /\ manifest1.children[1].name.val = CAMERA
    /\ manifest1.children[2].name.val = CAMERA_PADDED
    /\ names1 = <<CAMERA>>

\* C8: with an allow-list, every record of the base set that is displayed and
\* exported as report.permissions has its category in the allow-list and every
\* base record with an allowed category is kept, while the comparison set handed
\* to diff_permissions is not filtered: it holds a record for every permission
\* extracted from the comparison manifest.
FilterAppliesToBaseOnly ==
    (opts.only # {} /\ "print_table" \in Range(calls)) =>
        /\ report.permissions = perms1
        /\ tables = <<perms1>>
        /\ \A i \in 1..Len(exports) : exports[i].data.permissions = perms1
        /\ \A i \in 1..Len(perms1) :
              /\ perms1[i].category \in opts.only
              /\ perms1[i].name \in Range(names1)
        /\ \A n \in Range(names1) :
              (\E c \in opts.only : n \in DOMAIN PERMISSION_CATEGORIES
                                      /\ PERMISSION_CATEGORIES[n][1] = c)
                  \/ (n \notin DOMAIN PERMISSION_CATEGORIES /\ "unknown" \in opts.only)
              => n \in NamesOf(perms1)
        /\ report.diff.present =>
              /\ NamesOf(perms2) = Range(names2)
              /\ Range(names2) \ NamesOf(perms1) = Range(report.diff.added)

\* a filtered run whose base set lost a record and whose comparison set kept a
\* record of a category outside the allow-list
FilteredBaseUnfilteredComparison ==
    /\ pc = "done"
    /\ opts.only = {"dangerous"}
    /\ Len(names1) = 2
    /\ Len(perms1) = 1
    /\ report.diff.present
    /\ \E i \in 1..Len(perms2) : perms2[i].category = "normal"
    /\ Len(exports) = 1

\* C9: classify_permission gives, for every string, a record whose category and
\* group are the catalog entry's when the name is a key of the catalog and
\* (unknown, None) otherwise; sensitive is true exactly when the category is
\* dangerous or signature; the same name classified twice gives the same record.
ClassifyFollowsCatalog ==
    /\ pc \in {"classify_out", "classify_twice"} =>
          \A i \in 1..Len(names1) :
              LET n == names1[i]
                  r == perms1[i]
              IN  /\ Len(perms1) = Len(names1)
                  /\ r.name = n
                  /\ n \in DOMAIN PERMISSION_CATEGORIES =>
                        /\ r.category = PERMISSION_CATEGORIES[n][1]
                        /\ r.group.present
                        /\ r.group.val = PERMISSION_CATEGORIES[n][2]
                  /\ n \notin DOMAIN PERMISSION_CATEGORIES =>
                        /\ r.category = "unknown"
                        /\ r.group = NoGroup
                  /\ r.sensitive <=> r.category \in {"dangerous", "signature"}
    /\ pc = "classify_twice" => perms2 = perms1

\* a signature permission classified twice
SignatureClassifiedTwice ==
    /\ pc = "classify_twice"
    /\ names1 = <<READ_LOGS>>
    /\ perms1[1].category = "signature"
    /\ perms1[1].sensitive

\* C10: with a comparison input, whatever the allow-list, a permission declared
\* in both the base manifest and the comparison manifest is in neither
\* diff.added nor diff.newDangerous.
AddedIsNotDeclaredInBase ==
    report.diff.present =>
        /\ Range(report.diff.added) \cap Range(names1) = {}
        /\ Range(report.diff.newDangerous) \cap Range(names1) = {}
====
